---- MODULE Spec2Model ----
(***************************************************************************)
(* Verification model of the Overlord Electron launcher (main process and  *)
(* renderer), its stdout/stderr line relay, and the inventory-dashboard    *)
(* front end (api client, StockAlert, Dashboard polling, ProductTable).    *)
(*                                                                         *)
(* Text is a sequence of tokens; a token is one character ("a", " ",       *)
(* "\n") or one keyword the renderer searches for ("[ERROR]", "COMPLETE"), *)
(* so that String.includes(kw) is membership of kw among the tokens.       *)
(***************************************************************************)
EXTENDS Integers, Sequences, FiniteSets, TLC

VARIABLES
    \* ---- launcher, main process (electron-app/renderer.js 624-791) ----
    pythonProcess,   \* the handle: 0 (null) or the id of a build child
    childState,      \* id -> "unborn" | "running" | "nospawn" | "exited" | "killed" | "errored" | "closed"
    childCode,       \* id -> exit code the close event will carry
    spawned,         \* number of build children ever spawned
    startsHandled,   \* number of start-build requests the main process handled
    replied,         \* id -> a handler other than close has replied build-complete for that child
    toMain,          \* IPC renderer -> main, in order
    toRenderer,      \* IPC main -> renderer, in order
    \* ---- launcher, renderer process (electron-app/renderer.js 80-384) ----
    isBuilding,
    btnBuildDisabled,
    btnCancelDisabled,
    buildTimer,      \* last id returned by setInterval, 0 when none yet
    liveTimers,      \* ids of interval timers not yet cleared
    statusText,
    fileTree,
    clicks,          \* number of accepted Build clicks
    consoleEl,       \* "" after the console is cleared, "lines" once a line was appended
    form,            \* the controls of the build form other than the prompt
    lastArgs,        \* argument list of the build child spawned last
    ui,              \* the renderer script the window runs: "overlord" | "app"
    \* ---- one stdout/stderr pipe of a build child ----
    stream,          \* "stdout" | "stderr": the pipe observed
    written,         \* everything the child has written to the pipe
    pending,         \* the part written but not yet handed to a data event
    \* ---- inventory backend and api client (frontend/src/lib/api.js) ----
    stock,           \* product -> [current_stock, initial_capacity]
    served,          \* the stock table the last /low-stock answer was computed from
    apiResult,       \* outcome of the last getLowStock() call
    \* ---- ProductTable (frontend/src/components/ProductTable.js) ----
    products,        \* the products prop
    given,           \* the array as the parent passed it
    sortField,
    sortDir,
    lastClick,       \* column of the last header click, "none" before any
    prevSort,        \* <<sortField, sortDir>> before the last header click
    \* ---- StockAlert (unnamed/part_007) ----
    page,            \* the component instance exercised: "alert" | "dashboard"
    saMounted,
    saTimers,        \* interval timers of the panel not yet cleared
    alerts,
    saLoading,
    saError,         \* "null" or the message of the last error
    saInflight,      \* slot -> a fetchLowStock() call that has not finished
    saEvent,         \* what the last step of the panel was
    \* ---- Dashboard page (unnamed/part_006) ----
    dMounted,
    dTimers,
    dProducts,       \* version of the products shown, -1 for the initial []
    dAnalytics,      \* version of the analytics shown, -1 for null
    dLoading,
    dError,
    seeding,
    seedCall,        \* handleSeed in progress: "none" | "posting" | "refreshing"
    seedLive,        \* the instance that started handleSeed is still mounted
    dInflight,       \* slot -> a fetchDashboardData() call that has not finished
    dEvent,          \* what the last step of the page was
    dLatest,         \* the most recently started refresh of the page and what it displayed
    serverVer,       \* version of the data the backend holds
    \* ---- application lifecycle (run_overlord.bat 62-452) ----
    mainWindow,      \* "open" | "closed"
    platform,        \* process.platform
    appQuit,         \* app.quit() has been called
    proc,            \* handle name -> 0 (null) or the id of a child of that kind
    procState        \* handle name -> id -> "unborn" | "running" | "nospawn" | "killed" | "errored" | "closed"

launcherVars == <<pythonProcess, childState, childCode, spawned, startsHandled, replied,
                  toMain, toRenderer, isBuilding, btnBuildDisabled,
                  btnCancelDisabled, buildTimer, liveTimers, statusText,
                  fileTree, clicks, consoleEl, form, lastArgs, ui>>

relayVars == <<stream, written, pending>>
apiVars == <<stock, served, apiResult>>

tableVars == <<products, given, sortField, sortDir, lastClick, prevSort>>

alertVars == <<saMounted, saTimers, alerts, saLoading, saError, saInflight, saEvent>>
dashVars == <<dMounted, dTimers, dProducts, dAnalytics, dLoading, dError,
              seeding, seedCall, seedLive, dInflight, dEvent, dLatest, serverVer>>
uiVars == <<page, alertVars, dashVars>>
lifeVars == <<mainWindow, platform, appQuit, proc, procState>>

vars == <<launcherVars, relayVars, apiVars, tableVars, uiVars, lifeVars>>

\* What the handlers of one part never touch.
notLauncher == <<relayVars, apiVars, tableVars, uiVars, lifeVars>>
notRelay == <<apiVars, tableVars, uiVars, lifeVars>>
notApi == <<launcherVars, relayVars, tableVars, uiVars, lifeVars>>
notTable == <<launcherVars, relayVars, apiVars, uiVars, lifeVars>>
notAlert == <<launcherVars, relayVars, apiVars, tableVars, page, dashVars, lifeVars>>
notDash == <<launcherVars, relayVars, apiVars, tableVars, page, alertVars, lifeVars>>
notLife == <<launcherVars, relayVars, apiVars, tableVars, uiVars>>

----------------------------------------------------------------------------
(* Bounds *)
MaxBuilds == 3      \* build children / accepted Build clicks explored
MaxChan == 1        \* IPC messages in flight beyond which no click / no new reply is explored
MaxOut == 4         \* tokens a child writes to one pipe
MaxStock == 3       \* highest current_stock explored (thresholds are 1 and 2)
MaxProducts == 3    \* rows of the product table
MaxInflight == 2    \* fetches one component has in flight together
MaxSeeds == 1       \* Seed Demo Data requests explored
MaxSpawns == 2      \* children of one kind (build, maintenance, dashboard) spawned

----------------------------------------------------------------------------
(* Text: tokens, split('\n'), trim() *)

NL == "\n"
Whitespace == {" ", "\t", "\r"}

\* String.prototype.split('\n'): the pieces between newlines, empty ones kept.
RECURSIVE Split(_)
Split(s) ==
    IF \A i \in 1..Len(s) : s[i] /= NL
    THEN <<s>>
    ELSE LET i == CHOOSE k \in 1..Len(s) :
                    s[k] = NL /\ \A j \in 1..(k-1) : s[j] /= NL
         IN <<SubSeq(s, 1, i-1)>> \o Split(SubSeq(s, i+1, Len(s)))

\* l.trim() is truthy: the line has a character that is not white space.
NonBlank(l) == \E i \in 1..Len(l) : l[i] \notin Whitespace

\* data.toString().split('\n').filter(l => l.trim())
RelayLines(data) == SelectSeq(Split(data), NonBlank)

Includes(text, kw) == \E i \in 1..Len(text) : text[i] = kw

----------------------------------------------------------------------------
(* The parts a specification does not exercise stay as constructed. *)

Products == {1, 2}

\* A response body that is no list (an error object, null).
NoBody == [isList |-> FALSE, items |-> <<>>]

RelayIdle == stream = "stdout" /\ written = <<>> /\ pending = <<>>

ApiIdle ==
    /\ stock = [p \in Products |-> [current_stock |-> 0, initial_capacity |-> 0]]
    /\ served = stock
    /\ apiResult = [kind |-> "none", body |-> NoBody]

\* useState('name'), useState('asc'); products defaults to [].
TableIdle ==
    /\ products = <<>>
    /\ given = <<>>
    /\ sortField = "name"
    /\ sortDir = "asc"
    /\ lastClick = "none"
    /\ prevSort = <<"name", "asc">>

Slots == 1..MaxInflight

FreeAlertSlot == [stage |-> "free", live |-> FALSE, body |-> NoBody, valid |-> FALSE]
FreeDashSlot == [stage |-> "free", live |-> FALSE, ver |-> 0, isList |-> FALSE,
                 valid |-> FALSE, seed |-> FALSE]
Event(name, started, live) == [name |-> name, started |-> started, live |-> live]

\* No refresh of the page was started, or the most recent one failed.
NoRefresh == [slot |-> 0, done |-> FALSE, products |-> -1, analytics |-> -1]

\* StockAlert before it is mounted: useState([]), useState(true), useState(null).
AlertIdle ==
    /\ saMounted = FALSE
    /\ saTimers = 0
    /\ alerts = <<>>
    /\ saLoading = TRUE
    /\ saError = "null"
    /\ saInflight = [s \in Slots |-> FreeAlertSlot]
    /\ saEvent = Event("none", FALSE, FALSE)

\* Dashboard before it is mounted: useState([]), null, true, false, null.
DashIdle ==
    /\ dMounted = FALSE
    /\ dTimers = 0
    /\ dProducts = -1
    /\ dAnalytics = -1
    /\ dLoading = TRUE
    /\ dError = "null"
    /\ seeding = FALSE
    /\ seedCall = "none"
    /\ seedLive = FALSE
    /\ dInflight = [s \in Slots |-> FreeDashSlot]
    /\ dEvent = Event("none", FALSE, FALSE)
    /\ dLatest = NoRefresh
    /\ serverVer = 0

UiIdle == page = "alert" /\ AlertIdle /\ DashIdle

\* The three module-level child handles of the main process.
Handles == {"pythonProcess", "maintProcess", "dashboardProcess"}
Spawns == 1..MaxSpawns

\* The application after createWindow(), no child spawned yet.
AppReady ==
    /\ mainWindow = "open"
    /\ appQuit = FALSE
    /\ proc = [h \in Handles |-> 0]
    /\ procState = [h \in Handles |-> [i \in Spawns |-> "unborn"]]

LifeIdle == AppReady /\ platform = "win32"

----------------------------------------------------------------------------
(* Launcher: values *)

Children == 1..MaxBuilds

\* The exit code a close event carries: a number, or null for a child that
\* was terminated by a signal.
Code(n) == [null |-> FALSE, n |-> n]
NullCode == [null |-> TRUE, n |-> 0]
ExitCodes == {Code(0), Code(1)}
SpawnErrCode == Code(-2)

\* Output a child can write in one data event.
DataChunks == { <<"COMPLETE", NL, " ", NL>> }
Prompts == { <<>>, <<" ">>, <<"a">> }

AbortLine == <<"[ERROR]", " ", "Build aborted by operator.">>
SpawnFailLine == <<"[ERROR]", " ", "Failed to start Python: ", "ENOENT">>

LogUpdate(text) ==
    [type |-> "log-update", text |-> text, success |-> FALSE,
     aborted |-> FALSE, code |-> NullCode, from |-> "log"]

BuildComplete(success, aborted, code, from) ==
    [type |-> "build-complete", text |-> <<>>, success |-> success,
     aborted |-> aborted, code |-> code, from |-> from]

\* Variant of CloseResult: tests !code instead of code === 0.
CloseResultFalsy(code) ==
    IF code.null \/ code.n = 0
    THEN BuildComplete(TRUE, FALSE, code, "close")
    ELSE BuildComplete(FALSE, FALSE, code, "close")

\* pythonProcess.on('close'): success: true exactly for code === 0.
CloseResult(code) ==
    IF ~code.null /\ code.n = 0
    THEN BuildComplete(TRUE, FALSE, code, "close")
    ELSE BuildComplete(FALSE, FALSE, code, "close")

\* pythonProcess.stdout.on('data'): one log-update per non-blank piece.
StdoutReplies(data) ==
    [i \in 1..Len(RelayLines(data)) |-> LogUpdate(RelayLines(data)[i])]

\* pythonProcess.stderr.on('data'): the same, prefixed with '[ERROR] '.
StderrReplies(data) ==
    [i \in 1..Len(RelayLines(data)) |->
        LogUpdate(<<"[ERROR]", " ">> \o RelayLines(data)[i])]

\* killPython(): kill() the child the handle names (a signal to a child that
\* has already exited or never started does nothing), then null the handle.
KilledStates(cs, h) ==
    IF h /= 0
    THEN [cs EXCEPT ![h] = IF @ = "running" THEN "killed" ELSE @]
    ELSE cs

\* A main-process handler runs only while fewer than MaxChan replied wait.
Room == Len(toRenderer) < MaxChan

----------------------------------------------------------------------------
(* Launcher: the build form, the start-build payload, the argument list *)

Auto == <<"auto">>
NoText == <<>>

\* String.prototype.trim().
RECURSIVE Trim(_)
Trim(text) ==
    IF text = <<>> THEN <<>>
    ELSE IF Head(text) \in Whitespace \cup {NL} THEN Trim(Tail(text))
    ELSE IF text[Len(text)] \in Whitespace \cup {NL}
         THEN Trim(SubSeq(text, 1, Len(text) - 1))
         ELSE text

\* Values the selects and the model fields can hold.
ModelChoices == { Auto, <<"gpt-4o">>, <<"deepseek", "-coder">> }
ControlSamples ==
    { [scale |-> Auto, platform |-> Auto, phase |-> Auto,
       archModel |-> NoText, engModel |-> NoText, reviewModel |-> NoText,
       localModel |-> NoText],
      [scale |-> <<"enterprise">>, platform |-> <<"web">>, phase |-> <<"plan">>,
       archModel |-> <<"o1">>, engModel |-> <<"gpt-4o">>, reviewModel |-> NoText,
       localModel |-> <<"deepseek", "-coder">>] }

MakeForm(pro, nb, m, c) ==
    [proMode |-> pro, optNoBundle |-> nb, model |-> m,
     scale |-> c.scale, platform |-> c.platform, phase |-> c.phase,
     archModel |-> c.archModel, engModel |-> c.engModel,
     reviewModel |-> c.reviewModel, localModel |-> c.localModel]

Forms ==
    { MakeForm(pro, nb, m, c) :
        pro \in BOOLEAN, nb \in BOOLEAN, m \in ModelChoices, c \in ControlSamples }

\* The form as the page loads it.
DefaultForm ==
    MakeForm(FALSE, FALSE, Auto,
             [scale |-> Auto, platform |-> Auto, phase |-> Auto,
              archModel |-> NoText, engModel |-> NoText, reviewModel |-> NoText,
              localModel |-> NoText])

\* Variant of Payload: the controls are sent as they are, Pro Mode or not.
PayloadUnguarded(f, prompt) ==
    [prompt |-> Trim(prompt),
     scale |-> f.scale, platform |-> f.platform, model |-> f.model,
     phase |-> f.phase, noBundle |-> f.optNoBundle,
     archModel |-> f.archModel, engModel |-> f.engModel,
     reviewModel |-> f.reviewModel, localModel |-> f.localModel]

\* The object btnBuild's click handler sends with start-build (the fields
\* that are passed through untouched, such as projectName, mode, budget and
\* the other option flags, are left out).
Payload(f, prompt) ==
    [prompt |-> Trim(prompt),
     scale |-> IF f.proMode THEN f.scale ELSE Auto,
     platform |-> IF f.proMode THEN f.platform ELSE Auto,
     model |-> IF f.proMode THEN f.model ELSE Auto,
     phase |-> IF f.proMode THEN f.phase ELSE Auto,
     noBundle |-> f.optNoBundle,
     archModel |-> IF f.proMode THEN f.archModel ELSE NoText,
     engModel |-> IF f.proMode THEN f.engModel ELSE NoText,
     reviewModel |-> IF f.proMode THEN f.reviewModel ELSE NoText,
     localModel |-> IF f.proMode THEN f.localModel ELSE NoText]

StartBuild(payload) == [type |-> "start-build", payload |-> payload]
CancelBuild == [type |-> "cancel-build", payload |-> Payload(DefaultForm, NoText)]

\* A flag the handler destructures from the payload: undefined, hence falsy,
\* when the payload has no key of that name.
Flag(payload, key) == key \in DOMAIN payload /\ payload[key]

localModelPrefixes ==
    {"deepseek", "codellama", "qwen", "phi", "starcoder", "wizardcoder"}
cloudApiPrefixes == {"llama-", "gemma", "mixtral", "gemini"}

\* model.toLowerCase().startsWith(prefix) for some prefix of the set.
StartsWithAny(model, prefixes) == model /= <<>> /\ Head(model) \in prefixes

isLocalModel(model) ==
    ~StartsWithAny(model, cloudApiPrefixes) /\ StartsWithAny(model, localModelPrefixes)

\* if (value) args.push(option, value)
Opt(option, value) == IF value /= NoText THEN << <<option>>, value >> ELSE <<>>

\* if (flag) args.push(option)
Switch(option, flag) == IF flag THEN << <<option>> >> ELSE <<>>

\* Variant of BuildArgs: the handler reads the flag under the key the
\* renderer sends, noBundle.
BuildArgsNoBundleKey(payload) ==
    IF isLocalModel(payload.model)
    THEN << <<"local_overlord.py">>, payload.prompt, <<"--model">>, payload.model >>
    ELSE << <<"agent_brain.py">>, <<"--prompt">>, payload.prompt, <<"--model">>,
            IF payload.model = NoText THEN <<"gpt-4o">> ELSE payload.model >>
         \o Opt("--scale", payload.scale)
         \o Opt("--platform", payload.platform)
         \o Opt("--phase", payload.phase)
         \o Switch("--no-bundle", Flag(payload, "noBundle"))
         \o Opt("--arch-model", payload.archModel)
         \o Opt("--eng-model", payload.engModel)
         \o Opt("--review-model", payload.reviewModel)
         \o Opt("--local-model", payload.localModel)

\* The argument list start-build assembles for spawn('python', args).
BuildArgs(payload) ==
    IF isLocalModel(payload.model)
    THEN << <<"local_overlord.py">>, payload.prompt, <<"--model">>, payload.model >>
    ELSE << <<"agent_brain.py">>, <<"--prompt">>, payload.prompt, <<"--model">>,
            IF payload.model = NoText THEN <<"gpt-4o">> ELSE payload.model >>
         \o Opt("--scale", payload.scale)
         \o Opt("--platform", payload.platform)
         \o Opt("--phase", payload.phase)
         \o Switch("--no-bundle", Flag(payload, "enableNoBundle"))
         \o Opt("--arch-model", payload.archModel)
         \o Opt("--eng-model", payload.engModel)
         \o Opt("--review-model", payload.reviewModel)
         \o Opt("--local-model", payload.localModel)

----------------------------------------------------------------------------
(* Launcher: renderer process *)

\* setStatStatus after a log-update line (renderer.js 365-369).
StatusAfterLog(text, old) ==
    IF Includes(text, "COMPLETE") \/ Includes(text, "SUCCESS") \/ Includes(text, "VERIFIED")
    THEN "VERIFIED"
    ELSE IF Includes(text, "[ERROR]") \/ Includes(text, "[CRITICAL]") \/ Includes(text, "[FATAL]")
         THEN "ISSUE DETECTED"
         ELSE old

\* setStatStatus after build-complete (renderer.js 375-383).
StatusAfterComplete(result) ==
    IF result.aborted THEN "ABORTED"
    ELSE IF result.success THEN "COMPLETE"
    ELSE "FAILED"

\* Variant of BuildClick: the prompt is not checked before the build starts.
BuildClickAnyPrompt(prompt) ==
    /\ UNCHANGED notLauncher
    /\ clicks < MaxBuilds
    /\ Len(toMain) + Len(toRenderer) < MaxChan
    /\ IF isBuilding
       THEN UNCHANGED launcherVars
       ELSE /\ fileTree' = "Initializing build engine..."
            /\ isBuilding' = TRUE
            /\ btnBuildDisabled' = TRUE
            /\ btnCancelDisabled' = FALSE
            /\ buildTimer' = clicks + 1
            /\ liveTimers' = liveTimers \cup {clicks + 1}
            /\ statusText' = "RUNNING"
            /\ clicks' = clicks + 1
            /\ toMain' = Append(toMain, StartBuild(Payload(form, prompt)))
            /\ consoleEl' = ""
            /\ UNCHANGED <<pythonProcess, childState, childCode, spawned,
                           startsHandled, toRenderer, replied,
                           form, lastArgs, ui>>

\* btnBuild click (also reached by Ctrl+Enter): rejected while building or
\* with a blank prompt; otherwise clears the UI, setBuilding(true) and sends
\* start-build.
BuildClick(prompt) ==
    /\ UNCHANGED notLauncher
    /\ clicks < MaxBuilds
    /\ Len(toMain) + Len(toRenderer) < MaxChan
    /\ IF isBuilding \/ ~NonBlank(prompt)
       THEN UNCHANGED launcherVars
       ELSE /\ fileTree' = "Initializing build engine..."
            /\ isBuilding' = TRUE
            /\ btnBuildDisabled' = TRUE
            /\ btnCancelDisabled' = FALSE
            /\ buildTimer' = clicks + 1
            /\ liveTimers' = liveTimers \cup {clicks + 1}
            /\ statusText' = "RUNNING"
            /\ clicks' = clicks + 1
            /\ toMain' = Append(toMain, StartBuild(Payload(form, prompt)))
            /\ consoleEl' = ""
            /\ UNCHANGED <<pythonProcess, childState, childCode, spawned,
                           startsHandled, toRenderer, replied,
                           form, lastArgs, ui>>

\* btnCancel click (also reached by Escape).
CancelClick ==
    /\ UNCHANGED notLauncher
    /\ Len(toMain) + Len(toRenderer) < MaxChan
    /\ isBuilding
    /\ toMain' = Append(toMain, CancelBuild)
    /\ UNCHANGED <<pythonProcess, childState, childCode, spawned, startsHandled,
                   toRenderer, isBuilding, btnBuildDisabled, btnCancelDisabled,
                   buildTimer, liveTimers, statusText, fileTree, clicks,
                   replied, form, ui, lastArgs, consoleEl>>

\* ipcRenderer.on('log-update') and ipcRenderer.on('build-complete').
RendererReceive ==
    /\ UNCHANGED notLauncher
    /\ toRenderer /= <<>>
    /\ LET m == Head(toRenderer) IN
       /\ toRenderer' = Tail(toRenderer)
       /\ IF m.type = "log-update"
          THEN /\ consoleEl' = "lines"
               /\ statusText' = StatusAfterLog(m.text, statusText)
               /\ UNCHANGED <<isBuilding, btnBuildDisabled, btnCancelDisabled,
                              liveTimers, fileTree>>
          ELSE /\ UNCHANGED consoleEl
               /\ isBuilding' = FALSE
               /\ btnBuildDisabled' = FALSE
               /\ btnCancelDisabled' = TRUE
               /\ liveTimers' = liveTimers \ {buildTimer}
               /\ statusText' = StatusAfterComplete(m)
               /\ fileTree' = IF ~m.aborted /\ m.success THEN "listing" ELSE fileTree
    /\ UNCHANGED <<pythonProcess, childState, childCode, spawned, startsHandled,
                   toMain, buildTimer, clicks, replied, form, ui, lastArgs>>

----------------------------------------------------------------------------
(* Launcher: main process *)

\* ipcMain.on('start-build'): killPython(), then spawn and attach handlers.
\* The spawn either starts the child or fails (an 'error' event follows).
HandleStartBuild ==
    /\ UNCHANGED notLauncher
    /\ toMain /= <<>> /\ Head(toMain).type = "start-build"
    /\ spawned < MaxBuilds
    /\ toMain' = Tail(toMain)
    /\ lastArgs' = BuildArgs(Head(toMain).payload)
    /\ \E outcome \in {"running", "nospawn"} :
         childState' = [KilledStates(childState, pythonProcess)
                            EXCEPT ![spawned + 1] = outcome]
    /\ pythonProcess' = spawned + 1
    /\ spawned' = spawned + 1
    /\ startsHandled' = startsHandled + 1
    /\ UNCHANGED <<childCode, toRenderer, isBuilding, btnBuildDisabled,
                   btnCancelDisabled, buildTimer, liveTimers, statusText,
                   fileTree, clicks, replied, form, ui,
                   consoleEl>>

\* ipcMain.on('cancel-build').
HandleCancelBuild ==
    /\ UNCHANGED notLauncher
    /\ toMain /= <<>> /\ Head(toMain).type = "cancel-build"
    /\ Room
    /\ toMain' = Tail(toMain)
    /\ IF pythonProcess /= 0
       THEN /\ childState' = KilledStates(childState, pythonProcess)
            /\ pythonProcess' = 0
            /\ toRenderer' = toRenderer \o
                 << LogUpdate(AbortLine),
                    BuildComplete(FALSE, TRUE, NullCode, "cancel") >>
            /\ replied' = [replied EXCEPT ![pythonProcess] = TRUE]
       ELSE UNCHANGED <<childState, pythonProcess, toRenderer, replied>>
    /\ UNCHANGED <<childCode, spawned, startsHandled, isBuilding,
                   btnBuildDisabled, btnCancelDisabled, buildTimer, liveTimers,
                   statusText, fileTree, clicks, form, ui,
                   lastArgs, consoleEl>>

\* The child process ends by itself.
ChildExit(c, code) ==
    /\ UNCHANGED notLauncher
    /\ childState[c] = "running"
    /\ childState' = [childState EXCEPT ![c] = "exited"]
    /\ childCode' = [childCode EXCEPT ![c] = code]
    /\ UNCHANGED <<pythonProcess, spawned, startsHandled, toMain, toRenderer,
                   isBuilding, btnBuildDisabled, btnCancelDisabled, buildTimer,
                   liveTimers, statusText, fileTree, clicks,
                   replied, form, ui, lastArgs, consoleEl>>

HasOpenStdio(c) == childState[c] \in {"running", "exited", "killed"}

\* pythonProcess.stdout.on('data').
ChildStdout(c, data) ==
    /\ UNCHANGED notLauncher
    /\ HasOpenStdio(c)
    /\ Room
    /\ toRenderer' = toRenderer \o StdoutReplies(data)
    /\ UNCHANGED <<pythonProcess, childState, childCode, spawned, startsHandled,
                   toMain, isBuilding, btnBuildDisabled, btnCancelDisabled,
                   buildTimer, liveTimers, statusText, fileTree, clicks,
                   replied, form, ui, lastArgs, consoleEl>>

\* pythonProcess.stderr.on('data').
ChildStderr(c, data) ==
    /\ UNCHANGED notLauncher
    /\ HasOpenStdio(c)
    /\ Room
    /\ toRenderer' = toRenderer \o StderrReplies(data)
    /\ UNCHANGED <<pythonProcess, childState, childCode, spawned, startsHandled,
                   toMain, isBuilding, btnBuildDisabled, btnCancelDisabled,
                   buildTimer, liveTimers, statusText, fileTree, clicks,
                   replied, form, ui, lastArgs, consoleEl>>

\* The code the close event of child c carries.
CloseCode(c) ==
    CASE childState[c] = "exited"  -> childCode[c]
      [] childState[c] = "killed"  -> NullCode
      [] childState[c] = "errored" -> SpawnErrCode

\* Variant of ChildClose: a failed build is started again by the launcher.
ChildCloseRetry(c) ==
    /\ UNCHANGED notLauncher
    /\ childState[c] \in {"exited", "killed", "errored"}
    /\ Room
    /\ toRenderer' = Append(toRenderer, CloseResult(CloseCode(c)))
    /\ IF CloseCode(c) /= Code(0) /\ spawned < MaxBuilds
       THEN /\ pythonProcess' = spawned + 1
            /\ spawned' = spawned + 1
            /\ childState' = [childState EXCEPT ![c] = "closed",
                                                ![spawned + 1] = "running"]
       ELSE /\ pythonProcess' = 0
            /\ spawned' = spawned
            /\ childState' = [childState EXCEPT ![c] = "closed"]
    /\ childCode' = [childCode EXCEPT ![c] = NullCode]
    /\ replied' = [replied EXCEPT ![c] = FALSE]
    /\ UNCHANGED <<startsHandled, toMain, isBuilding,
                   btnBuildDisabled, btnCancelDisabled, buildTimer, liveTimers,
                   statusText, fileTree, clicks, form, ui,
                   lastArgs, consoleEl>>

\* pythonProcess.on('close'): reply build-complete, null the handle.
ChildClose(c) ==
    /\ UNCHANGED notLauncher
    /\ childState[c] \in {"exited", "killed", "errored"}
    /\ Room
    /\ toRenderer' = Append(toRenderer, CloseResult(CloseCode(c)))
    /\ pythonProcess' = 0
    /\ childState' = [childState EXCEPT ![c] = "closed"]
    /\ childCode' = [childCode EXCEPT ![c] = NullCode]
    /\ replied' = [replied EXCEPT ![c] = FALSE]
    /\ UNCHANGED <<spawned, startsHandled, toMain, isBuilding,
                   btnBuildDisabled, btnCancelDisabled, buildTimer, liveTimers,
                   statusText, fileTree, clicks, form, ui,
                   lastArgs, consoleEl>>

\* pythonProcess.on('error'): the spawn failed.
ChildError(c) ==
    /\ UNCHANGED notLauncher
    /\ childState[c] = "nospawn"
    /\ Room
    /\ toRenderer' = toRenderer \o
         << LogUpdate(SpawnFailLine),
            BuildComplete(FALSE, FALSE, NullCode, "error") >>
    /\ pythonProcess' = 0
    /\ childState' = [childState EXCEPT ![c] = "errored"]
    /\ replied' = [replied EXCEPT ![c] = TRUE]
    /\ UNCHANGED <<childCode, spawned, startsHandled, toMain, isBuilding,
                   btnBuildDisabled, btnCancelDisabled, buildTimer, liveTimers,
                   statusText, fileTree, clicks, form, ui,
                   lastArgs, consoleEl>>

----------------------------------------------------------------------------
(* Launcher: specification *)

\* The launcher before anything happened, whichever page is loaded.
BuildIdle ==
    /\ pythonProcess = 0
    /\ childState = [c \in Children |-> "unborn"]
    /\ childCode = [c \in Children |-> NullCode]
    /\ spawned = 0
    /\ startsHandled = 0
    /\ replied = [c \in Children |-> FALSE]
    /\ toMain = <<>>
    /\ toRenderer = <<>>
    /\ isBuilding = FALSE
    /\ btnBuildDisabled = FALSE
    /\ btnCancelDisabled = TRUE
    /\ buildTimer = 0
    /\ liveTimers = {}
    /\ statusText = "READY"
    /\ fileTree = ""
    /\ clicks = 0
    /\ consoleEl = ""
    /\ form = DefaultForm
    /\ lastArgs = <<>>

LauncherIdle == BuildIdle /\ ui = "overlord"

InitLauncher == LauncherIdle /\ RelayIdle /\ ApiIdle /\ TableIdle /\ LifeIdle /\ UiIdle

NextLauncher ==
    \/ \E p \in Prompts : BuildClick(p)
    \/ CancelClick
    \/ RendererReceive
    \/ HandleStartBuild
    \/ HandleCancelBuild
    \/ \E c \in Children, code \in ExitCodes : ChildExit(c, code)
    \/ \E c \in Children, d \in DataChunks : ChildStdout(c, d)
    \/ \E c \in Children, d \in DataChunks : ChildStderr(c, d)
    \/ \E c \in Children : ChildClose(c)
    \/ \E c \in Children : ChildError(c)

SpecLauncher == InitLauncher /\ [][NextLauncher]_vars

----------------------------------------------------------------------------
(* Launcher: claims *)

RunningChildren == {c \in Children : childState[c] = "running"}
BornChildren == {c \in Children : childState[c] /= "unborn"}
PendingStarts == Cardinality({i \in 1..Len(toMain) : toMain[i].type = "start-build"})

\* C2: two build children are never running together: every child spawned
\* before the newest one has exited or been killed.
C2_OneBuildChild == Cardinality(RunningChildren) <= 1

\* The renderer takes a build-complete reply that a close handler sent.
ReceivesCloseResult ==
    /\ toRenderer /= <<>>
    /\ Head(toRenderer).from = "close"
    /\ toRenderer' = Tail(toRenderer)

\* C3: a close handler replied success = true exactly for exit code 0 (the
\* null code of a killed child counts as failure) and never aborted; on that
\* reply the renderer shows COMPLETE for code 0 and FAILED otherwise.
C3_ExitCodeDecides ==
    /\ [](\A i \in 1..Len(toRenderer) :
            toRenderer[i].from = "close" =>
                /\ toRenderer[i].success <=> (toRenderer[i].code = Code(0))
                /\ ~toRenderer[i].aborted)
    /\ [][ReceivesCloseResult =>
            statusText' = IF Head(toRenderer).code = Code(0)
                          THEN "COMPLETE" ELSE "FAILED"]_vars

\* C3 witness: the child of the only build has closed without success; its
\* close reply was the last one taken and the status shows FAILED.
C3_Witness ==
    /\ spawned = 1
    /\ childState[1] = "closed"
    /\ toMain = <<>> /\ toRenderer = <<>>
    /\ ~isBuilding
    /\ statusText = "FAILED"

\* C9: children are spawned only by start-build handlers: as many children
\* were ever spawned as start-build requests were handled, and handled plus
\* waiting requests are exactly the operator's accepted Build clicks.
C9_NoRetry ==
    /\ spawned = startsHandled
    /\ Cardinality(BornChildren) = spawned
    /\ startsHandled + PendingStarts = clicks

\* C9 witness: the only build failed, its child is closed, nothing is
\* waiting, and no other child exists.
C9_Witness ==
    /\ statusText = "FAILED"
    /\ childState[1] = "closed"
    /\ toMain = <<>> /\ toRenderer = <<>>
    /\ BornChildren = {1}
    /\ clicks = 1
    /\ pythonProcess = 0

\* C10: once the renderer shows ABORTED, no later message replaces it by
\* FAILED or COMPLETE (a new build first shows RUNNING).
C10_AbortedStays ==
    [][statusText = "ABORTED" => statusText' \notin {"FAILED", "COMPLETE"}]_vars

----------------------------------------------------------------------------
(* Line relay: one pipe of a running build child *)

RelayAlphabet == {"a", "b", " ", NL}

\* The child writes one more token to the pipe.
ChildWrite(tok) ==
    /\ Len(written) < MaxOut
    /\ written' = Append(written, tok)
    /\ pending' = Append(pending, tok)
    /\ UNCHANGED <<launcherVars, stream, notRelay>>

\* pythonProcess.stdout.on('data') with the first k waiting tokens as data.
RelayStdout(k) ==
    /\ stream = "stdout"
    /\ k \in 1..Len(pending)
    /\ toRenderer' = toRenderer \o StdoutReplies(SubSeq(pending, 1, k))
    /\ pending' = SubSeq(pending, k + 1, Len(pending))
    /\ UNCHANGED <<pythonProcess, childState, childCode, spawned, startsHandled,
                   toMain, isBuilding, btnBuildDisabled, btnCancelDisabled,
                   buildTimer, liveTimers, statusText, fileTree, clicks, stream, written, notRelay, replied, form, ui,
                   lastArgs, consoleEl>>

\* pythonProcess.stderr.on('data') with the first k waiting tokens as data.
RelayStderr(k) ==
    /\ stream = "stderr"
    /\ k \in 1..Len(pending)
    /\ toRenderer' = toRenderer \o StderrReplies(SubSeq(pending, 1, k))
    /\ pending' = SubSeq(pending, k + 1, Len(pending))
    /\ UNCHANGED <<pythonProcess, childState, childCode, spawned, startsHandled,
                   toMain, isBuilding, btnBuildDisabled, btnCancelDisabled,
                   buildTimer, liveTimers, statusText, fileTree, clicks, stream, written, notRelay, replied, form, ui,
                   lastArgs, consoleEl>>

\* The launcher right after the first start-build was handled and its child
\* started; the renderer has not taken any reply yet.
InitRelay ==
    /\ pythonProcess = 1
    /\ childState = [c \in Children |-> IF c = 1 THEN "running" ELSE "unborn"]
    /\ childCode = [c \in Children |-> NullCode]
    /\ spawned = 1
    /\ startsHandled = 1
    /\ replied = [c \in Children |-> FALSE]
    /\ toMain = <<>>
    /\ toRenderer = <<>>
    /\ isBuilding = TRUE
    /\ btnBuildDisabled = TRUE
    /\ btnCancelDisabled = FALSE
    /\ buildTimer = 1
    /\ liveTimers = {1}
    /\ statusText = "RUNNING"
    /\ fileTree = "Initializing build engine..."
    /\ clicks = 1
    /\ consoleEl = ""
    /\ form = DefaultForm
    /\ lastArgs = BuildArgs(Payload(DefaultForm, <<"a">>))
    /\ ui = "overlord"
    /\ stream \in {"stdout", "stderr"}
    /\ written = <<>>
    /\ pending = <<>>
    /\ ApiIdle
    /\ TableIdle /\ LifeIdle
    /\ UiIdle

NextRelay ==
    \/ \E tok \in RelayAlphabet : ChildWrite(tok)
    \/ \E k \in 1..MaxOut : RelayStdout(k)
    \/ \E k \in 1..MaxOut : RelayStderr(k)

SpecRelay == InitRelay /\ [][NextRelay]_vars

\* The lines of a text: its pieces between newlines, without the empty piece
\* after a final newline.
LinesOf(text) ==
    LET pieces == Split(text)
    IN IF pieces[Len(pieces)] = <<>> THEN SubSeq(pieces, 1, Len(pieces) - 1)
       ELSE pieces

ExpectedLogs ==
    LET lines == SelectSeq(LinesOf(written), NonBlank)
    IN [i \in 1..Len(lines) |->
          IF stream = "stdout" THEN lines[i] ELSE <<"[ERROR]", " ">> \o lines[i]]

\* C4: once everything written has been handed over and the output ends at a
\* line end, the log-update events are exactly the non-blank lines written,
\* one event per whole line, in order (stderr lines prefixed '[ERROR] ').
C4_WholeLines ==
    (pending = <<>> /\ (written = <<>> \/ written[Len(written)] = NL)) =>
        [i \in 1..Len(toRenderer) |-> toRenderer[i].text] = ExpectedLogs

----------------------------------------------------------------------------
(* Inventory: /low-stock and the api client *)

Capacities == {10, 20}

\* The threshold rule: current_stock < 0.1 x initial_capacity.
is_low_stock(p) == p.current_stock * 10 < p.initial_capacity

\* GET /low-stock: the products under the threshold, [] when there is none.
LowStockEndpoint(table) ==
    LET all == [p \in 1..Cardinality(Products) |->
                  [id |-> p, current_stock |-> table[p].current_stock,
                   initial_capacity |-> table[p].initial_capacity]]
    IN [rejected |-> FALSE, ok |-> TRUE,
        body |-> [isList |-> TRUE, items |-> SelectSeq(all, is_low_stock)]]

\* What fetch() gives when the backend is up, when it answers with a non-OK
\* status and an error object, and when the request itself fails.
HttpOutcome(how, table) ==
    CASE how = "ok"      -> LowStockEndpoint(table)
      [] how = "status"  -> [rejected |-> FALSE, ok |-> FALSE, body |-> NoBody]
      [] how = "network" -> [rejected |-> TRUE, ok |-> FALSE, body |-> NoBody]

\* Variant of fetchAPI: the res.ok test is missing.
fetchAPINoStatusCheck(res) ==
    IF res.rejected
    THEN [kind |-> "throws", body |-> NoBody]
    ELSE [kind |-> "value", body |-> res.body]

\* fetchAPI: rethrows a failed request, throws on a non-OK status, otherwise
\* returns the parsed body.
fetchAPI(res) ==
    IF res.rejected \/ ~res.ok
    THEN [kind |-> "throws", body |-> NoBody]
    ELSE [kind |-> "value", body |-> res.body]

\* Stock leaves or enters the warehouse (a StockLog OUT or IN entry).
StockMove(p, delta) ==
    /\ stock[p].current_stock + delta \in 0..stock[p].initial_capacity
    /\ stock[p].current_stock + delta <= MaxStock
    /\ stock' = [stock EXCEPT ![p].current_stock = @ + delta]
    /\ UNCHANGED <<notApi, served, apiResult>>

\* getLowStock(): fetchAPI('/low-stock').
getLowStock(how) ==
    /\ apiResult' = fetchAPI(HttpOutcome(how, stock))
    /\ served' = stock
    /\ UNCHANGED <<notApi, stock>>

\* A warehouse whose products have run low: capacities of 10 or 20 units,
\* up to MaxStock units left of each.
InitApi ==
    /\ LauncherIdle
    /\ RelayIdle
    /\ TableIdle /\ LifeIdle
    /\ UiIdle
    /\ \E caps \in [Products -> Capacities], left \in [Products -> 0..MaxStock] :
         stock = [p \in Products |->
                    [current_stock |-> left[p], initial_capacity |-> caps[p]]]
    /\ served = stock
    /\ apiResult = [kind |-> "none", body |-> NoBody]

NextApi ==
    \/ \E p \in Products, delta \in {-1, 1} : StockMove(p, delta)
    \/ \E how \in {"ok", "status", "network"} : getLowStock(how)

SpecApi == InitApi /\ [][NextApi]_vars

LowProducts(table) ==
    {p \in Products : table[p].current_stock * 10 < table[p].initial_capacity}

\* C1: a /low-stock answer obtained through the api client lists exactly the
\* products with current_stock < 0.1 x initial_capacity (strictly), each once
\* and with the stock it was computed from, and is [] when none qualifies.
C1_LowStockExact ==
    apiResult.kind = "value" =>
        LET items == apiResult.body.items IN
        /\ apiResult.body.isList
        /\ {items[i].id : i \in 1..Len(items)} = LowProducts(served)
        /\ Len(items) = Cardinality(LowProducts(served))
        /\ \A i \in 1..Len(items) :
              /\ items[i].current_stock = served[items[i].id].current_stock
              /\ items[i].initial_capacity = served[items[i].id].initial_capacity
              /\ is_low_stock(items[i])
        /\ (LowProducts(served) = {} => items = <<>>)

\* C1 witness: one product sits exactly on the threshold (not low), the
\* other below it, and the answer lists only the latter.
C1_Witness ==
    /\ apiResult.kind = "value"
    /\ Len(apiResult.body.items) = 1
    /\ \E p \in Products :
          served[p].current_stock * 10 = served[p].initial_capacity

----------------------------------------------------------------------------
(* ProductTable: sortable rows *)

\* Strings are sequences of UTF-16 code units: 65..90 are 'A'..'Z', 97..122
\* are 'a'..'z'.
toLowerCase(str) ==
    [i \in 1..Len(str) |-> IF str[i] \in 65..90 THEN str[i] + 32 ELSE str[i]]

\* The < of two strings: by code units, a proper prefix first.
StrLess(x, y) ==
    \E k \in 1..Len(y) :
        /\ \A i \in 1..(k - 1) : i <= Len(x) /\ x[i] = y[i]
        /\ \/ k = Len(x) + 1
           \/ k <= Len(x) /\ x[k] < y[k]

\* Products the backend can return.
ProductPool ==
    { [id |-> 1, name |-> <<98>>,     stock_percentage |-> 50, unit_price |-> 3],
      [id |-> 2, name |-> <<66>>,     stock_percentage |-> 5,  unit_price |-> 3],
      [id |-> 3, name |-> <<97>>,     stock_percentage |-> 50, unit_price |-> 1],
      [id |-> 4, name |-> <<65, 98>>, stock_percentage |-> 20, unit_price |-> 2] }

SortableFields == {"name", "stock_percentage", "unit_price"}

\* Variant of FieldLess: the names are compared without toLowerCase().
FieldLessCaseSensitive(a, b, field) ==
    CASE field = "name" -> StrLess(a.name, b.name)
      [] field = "stock_percentage" -> a.stock_percentage < b.stock_percentage
      [] field = "unit_price" -> a.unit_price < b.unit_price

\* a[sortField] < b[sortField], with strings lower-cased first.
FieldLess(a, b, field) ==
    CASE field = "name" -> StrLess(toLowerCase(a.name), toLowerCase(b.name))
      [] field = "stock_percentage" -> a.stock_percentage < b.stock_percentage
      [] field = "unit_price" -> a.unit_price < b.unit_price

\* The comparator handed to sort().
Compare(a, b, field, dir) ==
    IF FieldLess(a, b, field) THEN (IF dir = "asc" THEN -1 ELSE 1)
    ELSE IF FieldLess(b, a, field) THEN (IF dir = "asc" THEN 1 ELSE -1)
    ELSE 0

\* Array.prototype.sort is stable: x goes before the first row it must precede.
RECURSIVE InsertRow(_, _, _, _)
InsertRow(x, rows, field, dir) ==
    IF rows = <<>> THEN <<x>>
    ELSE IF Compare(x, Head(rows), field, dir) < 0 THEN <<x>> \o rows
    ELSE <<Head(rows)>> \o InsertRow(x, Tail(rows), field, dir)

RECURSIVE SortRows(_, _, _)
SortRows(rows, field, dir) ==
    IF rows = <<>> THEN <<>>
    ELSE InsertRow(rows[Len(rows)],
                   SortRows(SubSeq(rows, 1, Len(rows) - 1), field, dir),
                   field, dir)

\* const sorted = useMemo(() => [...products].sort(...)).
sorted == SortRows(products, sortField, sortDir)

\* Variant of handleSort: a click on another column keeps the direction.
handleSortKeepDir(field) ==
    /\ IF sortField = field
       THEN /\ sortDir' = IF sortDir = "asc" THEN "desc" ELSE "asc"
            /\ UNCHANGED sortField
       ELSE /\ sortField' = field
            /\ UNCHANGED sortDir
    /\ lastClick' = field
    /\ prevSort' = <<sortField, sortDir>>
    /\ UNCHANGED <<products, given, notTable>>

\* handleSort(field): a header click.
handleSort(field) ==
    /\ IF sortField = field
       THEN /\ sortDir' = IF sortDir = "asc" THEN "desc" ELSE "asc"
            /\ UNCHANGED sortField
       ELSE /\ sortField' = field
            /\ sortDir' = "asc"
    /\ lastClick' = field
    /\ prevSort' = <<sortField, sortDir>>
    /\ UNCHANGED <<products, given, notTable>>

\* Sequences of distinct pool products, up to n long.
RECURSIVE Listings(_)
Listings(n) ==
    IF n = 0 THEN {<<>>}
    ELSE Listings(n - 1) \cup
         { Append(l, x) : l \in {m \in Listings(n - 1) : Len(m) = n - 1},
                          x \in ProductPool }

\* The Dashboard re-renders the table with a freshly fetched products array.
ReceiveProducts(ps) ==
    /\ \A i, j \in 1..Len(ps) : i /= j => ps[i].id /= ps[j].id
    /\ ps /= products
    /\ products' = ps
    /\ given' = ps
    /\ UNCHANGED <<sortField, sortDir, lastClick, prevSort, notTable>>

InitTable == LauncherIdle /\ RelayIdle /\ ApiIdle /\ TableIdle /\ LifeIdle /\ UiIdle

NextTable ==
    \/ \E ps \in Listings(MaxProducts) : ReceiveProducts(ps)
    \/ \E f \in SortableFields : handleSort(f)

SpecTable == InitTable /\ [][NextTable]_vars

\* The order the table is meant to show: numbers by value, names by their
\* letters regardless of case.
Letter(u) == IF u \in 97..122 THEN u - 32 ELSE u
NameBefore(x, y) ==
    \E k \in 1..Len(y) :
        /\ \A i \in 1..(k - 1) : i <= Len(x) /\ Letter(x[i]) = Letter(y[i])
        /\ \/ k = Len(x) + 1
           \/ k <= Len(x) /\ Letter(x[k]) < Letter(y[k])
Precedes(a, b, field) ==
    CASE field = "name" -> NameBefore(a.name, b.name)
      [] field = "stock_percentage" -> a.stock_percentage < b.stock_percentage
      [] field = "unit_price" -> a.unit_price < b.unit_price

Occurrences(rows, x) == Cardinality({i \in 1..Len(rows) : rows[i] = x})

----------------------------------------------------------------------------
(* StockAlert: fetchLowStock, the polling effect, the render *)

HasFree(inflight) == \E s \in Slots : inflight[s].stage = "free"
FirstFree(inflight) ==
    CHOOSE s \in Slots :
        inflight[s].stage = "free" /\ \A t \in 1..(s - 1) : inflight[t].stage /= "free"

\* Bodies /low-stock answers with: the list for a warehouse with no, one or
\* two products under the threshold, or something that is no list.
SampleTables ==
    { [p \in Products |-> [current_stock |-> 5, initial_capacity |-> 10]],
      [p \in Products |-> [current_stock |-> IF p = 1 THEN 0 ELSE 5,
                           initial_capacity |-> 10]],
      [p \in Products |-> [current_stock |-> 0, initial_capacity |-> 10]] }
AlertBodies == {LowStockEndpoint(t).body : t \in SampleTables} \cup {NoBody}

\* What res.json() gives: a parse error, or the body.
Parsed == {[valid |-> FALSE, body |-> NoBody]} \cup
          {[valid |-> TRUE, body |-> b] : b \in AlertBodies}

\* if (error): a null or empty message does not count.
Truthy(msg) == msg /= "null" /\ msg /= ""

\* Variant of Render: hasAlerts tests alerts.length > 1.
RenderOffByOne(mounted, loading, error, list) ==
    IF ~mounted THEN [state |-> "none", count |-> 0, items |-> <<>>, retry |-> FALSE]
    ELSE IF loading THEN [state |-> "loading", count |-> 0, items |-> <<>>, retry |-> FALSE]
    ELSE IF Truthy(error) THEN [state |-> "error", count |-> 0, items |-> <<>>, retry |-> TRUE]
    ELSE IF Len(list) > 1
         THEN [state |-> "danger", count |-> Len(list), items |-> list, retry |-> FALSE]
         ELSE [state |-> "safe", count |-> 0, items |-> <<>>, retry |-> FALSE]

\* What StockAlert renders: the spinner, the error card with Retry, the red
\* list with its count, or the green All Clear.
Render(mounted, loading, error, list) ==
    IF ~mounted THEN [state |-> "none", count |-> 0, items |-> <<>>, retry |-> FALSE]
    ELSE IF loading THEN [state |-> "loading", count |-> 0, items |-> <<>>, retry |-> FALSE]
    ELSE IF Truthy(error) THEN [state |-> "error", count |-> 0, items |-> <<>>, retry |-> TRUE]
    ELSE IF Len(list) > 0
         THEN [state |-> "danger", count |-> Len(list), items |-> list, retry |-> FALSE]
         ELSE [state |-> "safe", count |-> 0, items |-> <<>>, retry |-> FALSE]

saView == Render(saMounted, saLoading, saError, alerts)

\* Variant of AlertsAfterError: the catch branch leaves the list as it was.
AlertsKeptAfterError(old) == old

\* catch: setAlerts([]).
AlertsAfterError(old) == <<>>

\* fetchLowStock() up to its first await: setLoading(true), setError(null),
\* fetch(). State setters of an unmounted instance do nothing.
SaStart(name) ==
    /\ HasFree(saInflight)
    /\ saInflight' = [saInflight EXCEPT ![FirstFree(saInflight)] =
                        [stage |-> "fetching", live |-> saMounted,
                         body |-> NoBody, valid |-> FALSE]]
    /\ saEvent' = Event(name, TRUE, saMounted)
    /\ IF saMounted
       THEN saLoading' = TRUE /\ saError' = "null"
       ELSE UNCHANGED <<saLoading, saError>>

\* The panel mounts: the effect calls fetchLowStock() and starts the timer.
SaMount ==
    /\ page = "alert"
    /\ ~saMounted
    /\ HasFree(saInflight)
    /\ saMounted' = TRUE
    /\ saInflight' = [saInflight EXCEPT ![FirstFree(saInflight)] =
                        [stage |-> "fetching", live |-> TRUE,
                         body |-> NoBody, valid |-> FALSE]]
    /\ saEvent' = Event("mount", TRUE, TRUE)
    /\ saTimers' = saTimers + 1
    /\ UNCHANGED <<alerts, saLoading, saError, notAlert>>

\* A tick of setInterval(fetchLowStock, 30000).
SaTick ==
    /\ saTimers > 0
    /\ SaStart("tick")
    /\ UNCHANGED <<saMounted, saTimers, alerts, notAlert>>

\* The Retry button of the error card.
SaRetry ==
    /\ saMounted
    /\ saView.retry
    /\ SaStart("retry")
    /\ UNCHANGED <<saMounted, saTimers, alerts, notAlert>>

\* The apiUrl prop changes: the effect is cleaned up and runs again.
SaApiUrlChange ==
    /\ saMounted
    /\ SaStart("rerun")
    /\ saTimers' = (saTimers - 1) + 1
    /\ UNCHANGED <<saMounted, alerts, notAlert>>

\* The panel is torn down: clearInterval(interval). Its state is dropped
\* (shown here as the initial state); calls in flight go on.
SaUnmount ==
    /\ saMounted
    /\ saMounted' = FALSE
    /\ saTimers' = saTimers - 1
    /\ saInflight' = [s \in Slots |-> [saInflight[s] EXCEPT !.live = FALSE]]
    /\ alerts' = <<>> /\ saLoading' = TRUE /\ saError' = "null"
    /\ saEvent' = Event("unmount", FALSE, FALSE)
    /\ UNCHANGED notAlert

\* catch (err) ... finally: setError(err.message), setAlerts([]),
\* setLoading(false).
SaCatch(s, name, msg) ==
    /\ saInflight' = [saInflight EXCEPT ![s] = FreeAlertSlot]
    /\ saEvent' = Event(name, FALSE, saInflight[s].live)
    /\ IF saInflight[s].live
       THEN /\ saError' = msg
            /\ alerts' = AlertsAfterError(alerts)
            /\ saLoading' = FALSE
       ELSE UNCHANGED <<saError, alerts, saLoading>>

\* await fetch(...) settles: the request failed, the status is not OK, or
\* the response is OK and res.json() is awaited next.
SaResponse(s, how, parsed) ==
    /\ saInflight[s].stage = "fetching"
    /\ CASE how = "network" -> SaCatch(s, "failed:network", "Failed to fetch")
         [] how = "status"  -> SaCatch(s, "failed:status", "API returned 500")
         [] how = "ok" ->
              /\ saInflight' = [saInflight EXCEPT ![s] =
                    [stage |-> "parsing", live |-> @.live,
                     body |-> parsed.body, valid |-> parsed.valid]]
              /\ saEvent' = Event("response", FALSE, saInflight[s].live)
              /\ UNCHANGED <<saError, alerts, saLoading>>
    /\ UNCHANGED <<saMounted, saTimers, notAlert>>

\* await res.json() settles: a parse error goes to catch; otherwise the
\* Array.isArray validation, then finally.
SaJson(s) ==
    /\ saInflight[s].stage = "parsing"
    /\ IF ~saInflight[s].valid
       THEN SaCatch(s, "failed:json", "Unexpected token")
       ELSE /\ saInflight' = [saInflight EXCEPT ![s] = FreeAlertSlot]
            /\ saEvent' = Event(IF saInflight[s].body.isList THEN "array" ELSE "nonarray",
                                FALSE, saInflight[s].live)
            /\ IF saInflight[s].live
               THEN /\ alerts' = IF saInflight[s].body.isList
                                 THEN saInflight[s].body.items ELSE <<>>
                    /\ saLoading' = FALSE
                    /\ UNCHANGED saError
               ELSE UNCHANGED <<saError, alerts, saLoading>>
    /\ UNCHANGED <<saMounted, saTimers, notAlert>>

NextAlert ==
    \/ SaMount
    \/ SaTick
    \/ SaRetry
    \/ SaApiUrlChange
    \/ SaUnmount
    \/ \E s \in Slots, how \in {"network", "status"} :
          SaResponse(s, how, [valid |-> FALSE, body |-> NoBody])
    \/ \E s \in Slots, parsed \in Parsed : SaResponse(s, "ok", parsed)
    \/ \E s \in Slots : SaJson(s)

----------------------------------------------------------------------------
(* Dashboard: fetchDashboardData, the polling effect, handleSeed *)

\* fetchDashboardData() up to its first await: setLoading(true),
\* setError(null), the two fetches. seed marks the call handleSeed awaits.
DStart(name, live, seed) ==
    /\ HasFree(dInflight)
    /\ dInflight' = [dInflight EXCEPT ![FirstFree(dInflight)] =
                        [stage |-> "fetching", live |-> live, ver |-> 0,
                         isList |-> FALSE, valid |-> FALSE, seed |-> seed]]
    /\ dEvent' = Event(name, TRUE, live)
    /\ IF live
       THEN /\ dLoading' = TRUE /\ dError' = "null"
            /\ dLatest' = [NoRefresh EXCEPT !.slot = FirstFree(dInflight)]
       ELSE UNCHANGED <<dLoading, dError, dLatest>>

\* The page mounts: the effect calls fetchDashboardData() and starts the timer.
DMount ==
    /\ page = "dashboard"
    /\ ~dMounted
    /\ dMounted' = TRUE
    /\ DStart("mount", TRUE, FALSE)
    /\ dTimers' = dTimers + 1
    /\ UNCHANGED <<dProducts, dAnalytics, seeding, seedCall, seedLive, serverVer, notDash>>

\* A tick of setInterval(fetchDashboardData, 30000).
DTick ==
    /\ dTimers > 0
    /\ DStart("tick", dMounted, FALSE)
    /\ UNCHANGED <<dMounted, dTimers, dProducts, dAnalytics, seeding, seedCall,
                   seedLive, serverVer, notDash>>

\* The Refresh button, or Retry Connection of the error banner.
DRefresh ==
    /\ dMounted
    /\ DStart("refresh", TRUE, FALSE)
    /\ UNCHANGED <<dMounted, dTimers, dProducts, dAnalytics, seeding, seedCall,
                   seedLive, serverVer, notDash>>

\* Seed Demo Data (disabled while seeding): setSeeding(true), POST /seed.
\* One handleSeed call is followed at a time.
DSeedClick ==
    /\ dMounted
    /\ ~seeding
    /\ seedCall = "none"
    /\ serverVer < MaxSeeds
    /\ seeding' = TRUE
    /\ seedCall' = "posting"
    /\ seedLive' = TRUE
    /\ dEvent' = Event("seedclick", FALSE, TRUE)
    /\ UNCHANGED <<dMounted, dTimers, dProducts, dAnalytics, dLoading, dError,
                   dInflight, dLatest, serverVer, notDash>>

\* await fetch(/seed) settles. Not OK or failed: catch, finally
\* setSeeding(false). OK: await fetchDashboardData(), whether or not the page
\* is still there.
DSeedResponse(ok) ==
    /\ seedCall = "posting"
    /\ IF ok
       THEN /\ serverVer' = serverVer + 1
            /\ DStart("seed", seedLive, TRUE)
            /\ seedCall' = "refreshing"
            /\ UNCHANGED seeding
       ELSE /\ seedCall' = "none"
            /\ seeding' = IF seedLive THEN FALSE ELSE seeding
            /\ dEvent' = Event("seedfailed", FALSE, seedLive)
            /\ UNCHANGED <<serverVer, dInflight, dLoading, dError, dLatest>>
    /\ UNCHANGED <<dMounted, dTimers, dProducts, dAnalytics, seedLive, notDash>>

\* The page is torn down: clearInterval(interval). Its state is dropped
\* (shown here as the initial state); calls in flight go on.
DUnmount ==
    /\ dMounted
    /\ dMounted' = FALSE
    /\ dTimers' = dTimers - 1
    /\ dInflight' = [s \in Slots |-> [dInflight[s] EXCEPT !.live = FALSE]]
    /\ seedLive' = FALSE
    /\ dProducts' = -1 /\ dAnalytics' = -1 /\ dLoading' = TRUE /\ dError' = "null"
    /\ seeding' = FALSE
    /\ dEvent' = Event("unmount", FALSE, FALSE)
    /\ dLatest' = NoRefresh
    /\ UNCHANGED <<seedCall, serverVer, notDash>>

\* fetchDashboardData() returns: its slot is free again, and if handleSeed
\* awaited it, handleSeed's finally runs setSeeding(false).
DFinish(s) ==
    /\ dInflight' = [dInflight EXCEPT ![s] = FreeDashSlot]
    /\ IF dInflight[s].seed
       THEN /\ seedCall' = "none"
            /\ seeding' = IF seedLive THEN FALSE ELSE seeding
       ELSE UNCHANGED <<seedCall, seeding>>

\* catch (err) ... finally: setError(err.message), setLoading(false).
DCatch(s, name, msg) ==
    /\ DFinish(s)
    /\ dEvent' = Event(name, FALSE, dInflight[s].live)
    /\ IF dInflight[s].live
       THEN dError' = msg /\ dLoading' = FALSE
       ELSE UNCHANGED <<dError, dLoading>>
    /\ dLatest' = IF s = dLatest.slot THEN NoRefresh ELSE dLatest
    /\ UNCHANGED <<dProducts, dAnalytics>>

\* await Promise.all([...]) settles: a request failed, a status is not OK, or
\* both responses are OK and carry what the backend holds at that moment.
DResponse(s, how, isList, valid) ==
    /\ dInflight[s].stage = "fetching"
    /\ CASE how = "network" -> DCatch(s, "failed:network", "Failed to fetch")
         [] how = "status"  -> DCatch(s, "failed:status", "Failed to fetch dashboard data")
         [] how = "ok" ->
              /\ dInflight' = [dInflight EXCEPT ![s] =
                    [@ EXCEPT !.stage = "parsing", !.ver = serverVer,
                              !.isList = isList, !.valid = valid]]
              /\ dEvent' = Event("response", FALSE, dInflight[s].live)
              /\ UNCHANGED <<dError, dLoading, dProducts, dAnalytics, seedCall, seeding, dLatest>>
    /\ UNCHANGED <<dMounted, dTimers, seedLive, serverVer, notDash>>

\* The two res.json() awaits settle: a parse error goes to catch; otherwise
\* setProducts(Array.isArray(...) ? data : []), setAnalytics(data), finally.
DJson(s) ==
    /\ dInflight[s].stage = "parsing"
    /\ IF ~dInflight[s].valid
       THEN DCatch(s, "failed:json", "Unexpected token")
       ELSE /\ DFinish(s)
            /\ dEvent' = Event("done", FALSE, dInflight[s].live)
            /\ IF dInflight[s].live
               THEN /\ dProducts' = IF dInflight[s].isList THEN dInflight[s].ver ELSE -1
                    /\ dAnalytics' = dInflight[s].ver
                    /\ dLoading' = FALSE
                    /\ dLatest' = IF s = dLatest.slot
                                  THEN [slot |-> 0, done |-> TRUE,
                                        products |-> dProducts',
                                        analytics |-> dAnalytics']
                                  ELSE dLatest
                    /\ UNCHANGED dError
               ELSE UNCHANGED <<dProducts, dAnalytics, dLoading, dError, dLatest>>
    /\ UNCHANGED <<dMounted, dTimers, seedLive, serverVer, notDash>>

NextDash ==
    \/ DMount
    \/ DTick
    \/ DRefresh
    \/ DSeedClick
    \/ \E ok \in BOOLEAN : DSeedResponse(ok)
    \/ DUnmount
    \/ \E s \in Slots, how \in {"network", "status"} : DResponse(s, how, FALSE, FALSE)
    \/ \E s \in Slots, isList \in BOOLEAN, valid \in BOOLEAN : DResponse(s, "ok", isList, valid)
    \/ \E s \in Slots : DJson(s)

----------------------------------------------------------------------------
(* The polling components: one instance of either is followed *)

InitUI ==
    /\ LauncherIdle /\ RelayIdle /\ ApiIdle /\ TableIdle /\ LifeIdle
    /\ page \in {"alert", "dashboard"}
    /\ AlertIdle /\ DashIdle

NextUI == NextAlert \/ NextDash

SpecUI == InitUI /\ [][NextUI]_vars

----------------------------------------------------------------------------
(* Claims about StockAlert and the polling *)

\* C5: whenever the StockAlert panel is neither loading nor in the error
\* state, it shows the red danger state, with the items and their count, if
\* and only if the stored /low-stock result is non-empty, and the green All
\* Clear state if and only if that result is empty.
C5_RedIffLowStock ==
    (saMounted /\ ~saLoading /\ saError = "null") =>
        /\ saView.state = "danger" <=> Len(alerts) > 0
        /\ saView.state = "safe" <=> Len(alerts) = 0
        /\ saView.state = "danger" => saView.items = alerts /\ saView.count = Len(alerts)

\* The panel holds two low-stock items and shows them in red; it has also
\* shown All Clear for an empty result.
C5_Witness ==
    /\ saMounted /\ ~saLoading /\ saError = "null"
    /\ Len(alerts) = 2
    /\ saView.state = "danger"

\* C6: a /low-stock body that is not an array, a non-OK status and a failed
\* request each leave alerts = [] and loading = false, and a non-OK status
\* or a failed request shows the error state with Retry, not All Clear.
C6_FallsBackToEmpty ==
    /\ (saEvent.live /\ saEvent.name \in {"nonarray", "failed:status", "failed:network"})
          => alerts = <<>> /\ ~saLoading
    /\ (saEvent.live /\ saEvent.name \in {"failed:status", "failed:network"})
          => saView.state = "error" /\ saView.retry /\ saView.state /= "safe"

\* A request of the mounted panel has just been answered with a non-OK
\* status and the error card is up.
C6_Witness ==
    /\ saMounted
    /\ saEvent.live /\ saEvent.name = "failed:status"
    /\ alerts = <<>> /\ ~saLoading
    /\ saView.state = "error"

\* C7: a mounted Dashboard or StockAlert starts a fetch on mount and on each
\* tick of its interval timer, never has more than one interval timer, and
\* once it is torn down its timer is cleared and it starts no further fetch.
C7_PollingStopsAtTeardown ==
    /\ saTimers <= 1 /\ dTimers <= 1
    /\ ~saMounted => saTimers = 0
    /\ ~dMounted => dTimers = 0
    /\ saEvent.name \in {"mount", "tick"} => saEvent.started
    /\ dEvent.name \in {"mount", "tick"} => dEvent.started
    /\ saEvent.started => saEvent.live
    /\ dEvent.started => dEvent.live

----------------------------------------------------------------------------
(* Claims about the build replied and the handle *)

\* The close handler of child c runs (it replies build-complete, always).
Closes(c) == childState[c] /= "closed" /\ childState'[c] = "closed"

\* C11: for every start-build request exactly one build-complete reply is
\* sent for that build: the close handler of its child sends one, so no
\* other handler (error, cancel-build) has sent one for it before.
C11_OneReplyPerBuild ==
    [][\A c \in Children : Closes(c) => ~replied[c]]_vars

\* A close or error handler of child c runs while the handle names another child.
LateEventOf(c) ==
    /\ childState[c] \in {"exited", "killed", "errored", "nospawn"}
    /\ childState'[c] \in {"closed", "errored"}
    /\ childState'[c] /= childState[c]
    /\ pythonProcess \notin {0, c}

\* C12: while a build child is running the pythonProcess handle refers to
\* it, and a close or error event of an earlier child never clears the
\* handle of a newer child.
C12_HandleTracksChild ==
    /\ [](\A c \in RunningChildren : pythonProcess = c)
    /\ [][\A c \in Children : LateEventOf(c) => pythonProcess' = pythonProcess]_vars

----------------------------------------------------------------------------
(* The build form: what a Build sends and what the child is started with *)

\* keydown: Ctrl+Enter clicks Build unless a build is running.
CtrlEnter(prompt) ==
    IF ~isBuilding
    THEN BuildClick(prompt)
    ELSE /\ clicks < MaxBuilds
         /\ UNCHANGED vars

\* proModeToggle change: shows or hides the Pro controls, resets none.
ToggleProMode ==
    /\ form' = [form EXCEPT !.proMode = ~@]
    /\ UNCHANGED <<pythonProcess, childState, childCode, spawned, startsHandled,
                   replied, toMain, toRenderer, isBuilding, btnBuildDisabled,
                   btnCancelDisabled, buildTimer, liveTimers, statusText,
                   fileTree, clicks, consoleEl, lastArgs, ui, notLauncher>>

\* The operator changes the other controls of the form.
SetControls(f) ==
    /\ f.proMode = form.proMode
    /\ f /= form
    /\ form' = f
    /\ UNCHANGED <<pythonProcess, childState, childCode, spawned, startsHandled,
                   replied, toMain, toRenderer, isBuilding, btnBuildDisabled,
                   btnCancelDisabled, buildTimer, liveTimers, statusText,
                   fileTree, clicks, consoleEl, lastArgs, ui, notLauncher>>

InitForm == InitLauncher

NextForm ==
    \/ ToggleProMode
    \/ \E f \in Forms : SetControls(f)
    \/ \E p \in Prompts : BuildClick(p)
    \/ \E p \in Prompts : CtrlEnter(p)
    \/ RendererReceive
    \/ HandleStartBuild
    \/ \E c \in Children, code \in ExitCodes : ChildExit(c, code)
    \/ \E c \in Children, d \in DataChunks : ChildStdout(c, d)
    \/ \E c \in Children : ChildClose(c)

SpecForm == InitForm /\ [][NextForm]_vars

\* What a rejected Build must leave alone, and the outgoing channel.
BuildEffects == <<toMain, consoleEl, fileTree, statusText, isBuilding>>

\* C13: while isBuilding is true, or when the trimmed prompt is empty, a
\* Build click or Ctrl+Enter sends no start-build and changes neither the
\* console, the file tree, the status nor isBuilding.
C13_RejectedBuildIsNoOp ==
    \A p \in Prompts :
        (isBuilding \/ Trim(p) = <<>>) =>
            /\ ~ENABLED (BuildClick(p) /\ BuildEffects' /= BuildEffects)
            /\ ~ENABLED (CtrlEnter(p) /\ BuildEffects' /= BuildEffects)

\* C13 witness: a build is running after an accepted click, and a further
\* Build click with a real prompt is taken (and rejected).
C13_Witness ==
    /\ isBuilding
    /\ clicks = 1
    /\ consoleEl = "lines"
    /\ ENABLED BuildClick(<<"a">>)

\* The renderer sends a start-build in this step.
SendsStartBuild ==
    /\ Len(toMain') = Len(toMain) + 1
    /\ toMain'[Len(toMain')].type = "start-build"

\* The main process handles a start-build in this step.
HandlesStartBuild ==
    /\ startsHandled' = startsHandled + 1
    /\ toMain /= <<>>

HasArg(args, option) == \E i \in 1..Len(args) : args[i] = <<option>>

\* C17: a build routed to agent_brain.py is started with --no-bundle in its
\* argument list exactly when the 'no bundle' option was checked at the
\* moment Build was clicked.
C17_NoBundleReachesChild ==
    /\ [][SendsStartBuild =>
            toMain'[Len(toMain')].payload.noBundle = form.optNoBundle]_vars
    /\ [][(HandlesStartBuild /\ ~isLocalModel(Head(toMain).payload.model)) =>
            (HasArg(lastArgs', "--no-bundle") <=> Head(toMain).payload.noBundle)]_vars

\* C18: with Pro Mode off when Build is clicked, the payload carries 'auto'
\* for scale, platform, model and phase and empty archModel, engModel,
\* reviewModel and localModel, whatever the controls hold.
C18_ProModeOffSendsAuto ==
    [][(SendsStartBuild /\ ~form.proMode) =>
         LET p == toMain'[Len(toMain')].payload IN
         /\ p.scale = Auto /\ p.platform = Auto /\ p.model = Auto /\ p.phase = Auto
         /\ p.archModel = NoText /\ p.engModel = NoText
         /\ p.reviewModel = NoText /\ p.localModel = NoText]_vars

\* C18 witness: Pro Mode is off, the controls hold other values, and the
\* start-build waiting for the main process carries 'auto' and empty models.
C18_Witness ==
    /\ ~form.proMode
    /\ form.scale /= Auto /\ form.model /= Auto /\ form.archModel /= NoText
    /\ toMain /= <<>>
    /\ Head(toMain).type = "start-build"
    /\ Head(toMain).payload.scale = Auto
    /\ Head(toMain).payload.model = Auto
    /\ Head(toMain).payload.archModel = NoText

----------------------------------------------------------------------------
(* Claims about overlapping Dashboard refreshes *)

AllRefreshesDone == \A s \in Slots : dInflight[s].stage = "free"

\* C16: when refreshes of the Dashboard overlap, then once all of them have
\* completed the products and analytics displayed are those the most
\* recently started refresh returned, not those of an older refresh whose
\* response arrived later.
C16_LatestRefreshWins ==
    (dMounted /\ AllRefreshesDone /\ dLatest.done) =>
        /\ dProducts = dLatest.products
        /\ dAnalytics = dLatest.analytics

----------------------------------------------------------------------------
(* Renderers: the build controls of both pages against any message order *)

\* The object app.js sends with start-build (the fields passed through
\* untouched are left out); the prompt is trimmed but not checked.
AppPayload(f, prompt) ==
    [prompt |-> Trim(prompt), model |-> f.model,
     engModel |-> f.engModel, reviewModel |-> f.reviewModel]

\* app.js, setStatus after a log-update line.
AppStatusAfterLog(text, old) ==
    IF Includes(text, "[ARCHITECT]") /\ Includes(text, "ENGAG") THEN "ARCHITECT"
    ELSE IF Includes(text, "[ASSEMBLER]") THEN "ASSEMBLER"
    ELSE IF Includes(text, "[ENGINEER]") /\ Includes(text, "ENGAG") THEN "ENGINEER"
    ELSE IF Includes(text, "[REVIEWER]") /\ Includes(text, "ENGAG") THEN "REVIEWER"
    ELSE IF Includes(text, "[DEBUGGER]") /\ Includes(text, "ENGAG") THEN "DEBUGGER"
    ELSE IF Includes(text, "[BUNDLER]") /\ Includes(text, "ENGAG") THEN "BUNDLER"
    ELSE IF Includes(text, "[ENVIRON]") /\ Includes(text, "ENGAG") THEN "ENVIRONMENT"
    ELSE IF Includes(text, "[HANDOFF]") THEN "HANDOFF"
    ELSE IF Includes(text, "[DOCKER]") /\ Includes(text, "PACKAGING") THEN "PACKAGING"
    ELSE old

\* Variant of AppBuildClick: the click is not rejected while a build runs.
AppBuildClickWhileBuilding(prompt) ==
    /\ UNCHANGED notLauncher
    /\ ui = "app"
    /\ clicks < MaxBuilds
    /\ Len(toMain) + Len(toRenderer) < MaxChan
    /\ consoleEl' = ""
    /\ fileTree' = "Building..."
    /\ isBuilding' = TRUE
    /\ btnBuildDisabled' = TRUE
    /\ btnCancelDisabled' = FALSE
    /\ buildTimer' = clicks + 1
    /\ liveTimers' = liveTimers \cup {clicks + 1}
    /\ statusText' = "BUILDING"
    /\ clicks' = clicks + 1
    /\ toMain' = Append(toMain, StartBuild(AppPayload(form, prompt)))
    /\ UNCHANGED <<pythonProcess, childState, childCode, spawned,
                   startsHandled, toRenderer, replied, form, lastArgs, ui>>

\* app.js, btnBuild click (also reached by Ctrl+Enter): rejected while
\* building; otherwise clears the UI, setBuilding(true), setStatus and sends
\* start-build.
AppBuildClick(prompt) ==
    /\ UNCHANGED notLauncher
    /\ ui = "app"
    /\ clicks < MaxBuilds
    /\ Len(toMain) + Len(toRenderer) < MaxChan
    /\ IF isBuilding
       THEN UNCHANGED launcherVars
       ELSE /\ consoleEl' = ""
            /\ fileTree' = "Building..."
            /\ isBuilding' = TRUE
            /\ btnBuildDisabled' = TRUE
            /\ btnCancelDisabled' = FALSE
            /\ buildTimer' = clicks + 1
            /\ liveTimers' = liveTimers \cup {clicks + 1}
            /\ statusText' = "BUILDING"
            /\ clicks' = clicks + 1
            /\ toMain' = Append(toMain, StartBuild(AppPayload(form, prompt)))
            /\ UNCHANGED <<pythonProcess, childState, childCode, spawned,
                           startsHandled, toRenderer, replied, form, lastArgs, ui>>

\* app.js, ipcRenderer.on('log-update') and ipcRenderer.on('build-complete');
\* setBuilding(false) clears the interval and nulls buildTimer.
AppReceive ==
    /\ UNCHANGED notLauncher
    /\ ui = "app"
    /\ toRenderer /= <<>>
    /\ LET m == Head(toRenderer) IN
       /\ toRenderer' = Tail(toRenderer)
       /\ IF m.type = "log-update"
          THEN /\ consoleEl' = "lines"
               /\ statusText' = AppStatusAfterLog(m.text, statusText)
               /\ UNCHANGED <<isBuilding, btnBuildDisabled, btnCancelDisabled,
                              buildTimer, liveTimers, fileTree>>
          ELSE /\ UNCHANGED consoleEl
               /\ isBuilding' = FALSE
               /\ btnBuildDisabled' = FALSE
               /\ btnCancelDisabled' = TRUE
               /\ liveTimers' = liveTimers \ {buildTimer}
               /\ buildTimer' = 0
               /\ statusText' = StatusAfterComplete(m)
               /\ fileTree' = IF ~m.aborted /\ m.success THEN "listing" ELSE fileTree
    /\ UNCHANGED <<pythonProcess, childState, childCode, spawned, startsHandled,
                   toMain, clicks, replied, form, ui, lastArgs>>

\* Everything the main process can send to the page.
Replies ==
    { LogUpdate(<<"[ENGINEER]", " ", "ENGAG">>),
      LogUpdate(AbortLine),
      BuildComplete(TRUE, FALSE, Code(0), "close"),
      BuildComplete(FALSE, FALSE, Code(1), "close"),
      BuildComplete(FALSE, TRUE, NullCode, "cancel") }

\* The main process takes the next message of the page.
MainTakes ==
    /\ toMain /= <<>>
    /\ toMain' = Tail(toMain)
    /\ UNCHANGED <<pythonProcess, childState, childCode, spawned, startsHandled,
                   replied, toRenderer, isBuilding, btnBuildDisabled,
                   btnCancelDisabled, buildTimer, liveTimers, statusText,
                   fileTree, clicks, consoleEl, form, lastArgs, ui, notLauncher>>

\* The main process sends a message to the page: in this specification any
\* message at any time, so that late and repeated build-complete messages
\* are covered.
MainReplies(m) ==
    /\ Room
    /\ toRenderer' = Append(toRenderer, m)
    /\ UNCHANGED <<pythonProcess, childState, childCode, spawned, startsHandled,
                   replied, toMain, isBuilding, btnBuildDisabled,
                   btnCancelDisabled, buildTimer, liveTimers, statusText,
                   fileTree, clicks, consoleEl, form, lastArgs, ui, notLauncher>>

\* Either page is loaded: the Overlord renderer or app.js.
InitRenderer ==
    /\ BuildIdle
    /\ ui \in {"overlord", "app"}
    /\ RelayIdle /\ ApiIdle /\ TableIdle /\ LifeIdle /\ UiIdle

NextRenderer ==
    \/ \E p \in Prompts : ui = "overlord" /\ BuildClick(p)
    \/ ui = "overlord" /\ RendererReceive
    \/ \E p \in Prompts : AppBuildClick(p)
    \/ AppReceive
    \/ CancelClick
    \/ MainTakes
    \/ \E m \in Replies : MainReplies(m)

SpecRenderer == InitRenderer /\ [][NextRenderer]_vars

\* C14: from the first build start onward, whatever Build clicks, Cancel
\* clicks and build-complete messages (repeated ones included) arrive, the
\* Build button is disabled exactly while isBuilding, the Cancel button is
\* disabled exactly while not isBuilding, the elapsed timer runs exactly
\* while isBuilding, and at most one timer is alive.
C14_ControlsFollowIsBuilding ==
    clicks >= 1 =>
        /\ btnBuildDisabled = isBuilding
        /\ btnCancelDisabled = ~isBuilding
        /\ (liveTimers /= {}) = isBuilding
        /\ Cardinality(liveTimers) <= 1
        /\ isBuilding => liveTimers = {buildTimer}

\* C14 witness: app.js runs its second build while a build-complete, the
\* first build's or a repeated one, is still on its way to the page.
C14_Witness ==
    /\ ui = "app"
    /\ clicks = 2
    /\ isBuilding
    /\ liveTimers = {2}
    /\ toRenderer /= <<>>
    /\ Head(toRenderer).type = "build-complete"

----------------------------------------------------------------------------
(* Application lifecycle: the windows and the three kinds of child         *)
(* (run_overlord.bat); what the handlers reply to the page is not part of  *)
(* this specification's state.                                             *)

\* Children of a kind that were spawned so far.
Born(h) == {i \in Spawns : procState[h][i] /= "unborn"}

\* handle.kill(); handle = null, when the handle is not null: a signal to a
\* child that has already gone or never started does nothing.
KillHandle(ps, pr, h) ==
    IF pr[h] /= 0
    THEN [ps EXCEPT ![h][pr[h]] = IF @ = "running" THEN "killed" ELSE @]
    ELSE ps

\* killPython(); killMaint(): the build and the maintenance handle.
KillBuildAndMaint(ps, pr) ==
    KillHandle(KillHandle(ps, pr, "pythonProcess"), pr, "maintProcess")

\* The handles after killPython(); killMaint().
NulledHandles(pr) ==
    [pr EXCEPT !["pythonProcess"] = 0, !["maintProcess"] = 0]

\* ipcMain.on('start-build'), ipcMain.on('run-maintenance') and
\* ipcMain.on('launch-dashboard'): kill the child the handle names, then
\* spawn a new one and keep it in the handle. When the script of the
\* maintenance steward or of the dashboard is missing the handler returns
\* after the kill. The spawn either starts the child or fails (an 'error'
\* event follows).
Launch(h) ==
    /\ mainWindow = "open"
    /\ Cardinality(Born(h)) < MaxSpawns
    /\ \E scriptExists \in IF h = "pythonProcess" THEN {TRUE} ELSE BOOLEAN :
         IF scriptExists
         THEN LET i == Cardinality(Born(h)) + 1 IN
              \E outcome \in {"running", "nospawn"} :
                /\ procState' = [KillHandle(procState, proc, h) EXCEPT ![h][i] = outcome]
                /\ proc' = [proc EXCEPT ![h] = i]
         ELSE /\ procState' = KillHandle(procState, proc, h)
              /\ proc' = [proc EXCEPT ![h] = 0]
    /\ UNCHANGED <<mainWindow, platform, appQuit, notLife>>

\* ipcMain.on('cancel-build'): killPython() when a build child is held.
CancelBuildRequest ==
    /\ mainWindow = "open"
    /\ proc["pythonProcess"] /= 0
    /\ procState' = KillHandle(procState, proc, "pythonProcess")
    /\ proc' = [proc EXCEPT !["pythonProcess"] = 0]
    /\ UNCHANGED <<mainWindow, platform, appQuit, notLife>>

\* The 'close' event of a child that ran and exited, was killed, or failed
\* to start: its handler nulls the handle of its kind.
ProcClose(h, i) ==
    /\ procState[h][i] \in {"running", "killed", "errored"}
    /\ procState' = [procState EXCEPT ![h][i] = "closed"]
    /\ proc' = [proc EXCEPT ![h] = 0]
    /\ UNCHANGED <<mainWindow, platform, appQuit, notLife>>

\* The 'error' event of a child that failed to start: its handler nulls the
\* handle of its kind.
ProcError(h, i) ==
    /\ procState[h][i] = "nospawn"
    /\ procState' = [procState EXCEPT ![h][i] = "errored"]
    /\ proc' = [proc EXCEPT ![h] = 0]
    /\ UNCHANGED <<mainWindow, platform, appQuit, notLife>>

\* mainWindow.on('closed'): mainWindow = null; killPython(); killMaint().
MainWindowClosed ==
    /\ mainWindow = "open"
    /\ mainWindow' = "closed"
    /\ procState' = KillBuildAndMaint(procState, proc)
    /\ proc' = NulledHandles(proc)
    /\ UNCHANGED <<platform, appQuit, notLife>>

\* app.on('window-all-closed'): killPython(); killMaint(); app.quit()
\* except on darwin.
WindowAllClosed ==
    /\ mainWindow = "closed"
    /\ ~appQuit
    /\ procState' = KillBuildAndMaint(procState, proc)
    /\ proc' = NulledHandles(proc)
    /\ appQuit' = (platform /= "darwin")
    /\ UNCHANGED <<mainWindow, platform, notLife>>

\* app.on('activate'): createWindow() when no window is left.
Activate ==
    /\ platform = "darwin"
    /\ mainWindow = "closed"
    /\ mainWindow' = "open"
    /\ UNCHANGED <<platform, appQuit, proc, procState, notLife>>

InitLifecycle ==
    /\ AppReady
    /\ platform \in {"win32", "darwin"}
    /\ LauncherIdle /\ RelayIdle /\ ApiIdle /\ TableIdle /\ UiIdle

NextLifecycle ==
    \/ \E h \in Handles : Launch(h)
    \/ CancelBuildRequest
    \/ \E h \in Handles, i \in Spawns : ProcClose(h, i)
    \/ \E h \in Handles, i \in Spawns : ProcError(h, i)
    \/ MainWindowClosed
    \/ WindowAllClosed
    \/ Activate

SpecLifecycle == InitLifecycle /\ [][NextLifecycle]_vars

\* Children that run and were never sent a kill signal.
RunningProcs(h) == {i \in Spawns : procState[h][i] = "running"}

\* C15: once the main window is closed (and so once all windows are
\* closed), every child the launcher spawned, build, maintenance or
\* Antigravity dashboard, has been killed or has already exited.
C15_NoChildOutlivesWindow ==
    mainWindow = "closed" => \A h \in Handles : RunningProcs(h) = {}

====
